---- MODULE Spec2Model ----
(***************************************************************************)
(* The booking saga of Ritual_Buddy: the booking router, the payment       *)
(* router, the Redis slot lock and the Celery payment tasks, as a state    *)
(* machine.                                                                *)
(*                                                                         *)
(* Stores.  bookings, audit, payments, availability and notifications are  *)
(* the PostgreSQL tables; a handler's writes reach them at its commit      *)
(* (config/database.py: autoflush=False, one session per request).         *)
(* slot_lock is Redis: a call on it takes effect at once, outside any      *)
(* transaction.  orders, paid, payouts and refunds are the payment         *)
(* gateway's side; queue and refund_queue are the Celery messages for the  *)
(* payout and refund tasks.                                                *)
(*                                                                         *)
(* Requests.  req[r] is the position of the handler or task running in     *)
(* slot r and the values it holds in local variables.  Every await of a    *)
(* handler that touches a store is one step, so steps of different slots   *)
(* interleave as the event loop, the worker processes and the Celery       *)
(* workers interleave them.  A finished request leaves its status code in  *)
(* its slot until the response is delivered (Return) or the slot is used   *)
(* again.                                                                  *)
(*                                                                         *)
(* Time.  now counts hours.  A slot lock's TTL (900 s) is shorter than one *)
(* hour, so its expiry is a step of its own that may happen whenever the   *)
(* lock is held.                                                           *)
(*                                                                         *)
(* Slot keys.  A slot lock's key holds the pandit and the text of the       *)
(* requested time.  create_booking formats the time as the client wrote    *)
(* it (data.scheduled_at.isoformat()); every release formats the stored    *)
(* column, which the driver returns in UTC.  The two texts are equal only  *)
(* when the client wrote the time with offset +00:00.                      *)
(*                                                                         *)
(* Two expressions of the source raise on every evaluation:                *)
(*   booking/router.py:183   float(pandit.pooja_fees or {}).get(...)       *)
(*   tasks/payment_tasks.py:92,126,160   Payment.pandit_payout             *)
(* (float() of a dict; Payment has no such column).  As written, no        *)
(* request gets past the first and no payout past the second.  The model   *)
(* evaluates them as the lookup in the fee table and as the booking's      *)
(* pandit_payout, so that the saga behind them can be explored; PoojaFee   *)
(* and PayoutAmount are the two definitions concerned.                     *)
(***************************************************************************)
EXTENDS Integers, Sequences, FiniteSets, TLC

\* ---------------------------------------------------------------- bounds
MaxBookings == 2
MaxNow == 1
MaxOrders == 1
MaxAudit == 3
NumAvail == 1
MaxQueued == 2
MaxRefunds == 2
MaxReorders == 2

\* ------------------------------------------------------ program constants
BOOKING_ACCEPT_DEADLINE_HOURS == 2
PLATFORM_COMMISSION_PERCENT == 10

NoBooking == 0
NoTime == 0 - 1
NoOrder == 0
NoPayment == 0

\* ------------------------------------------------------------- the world
Users == {"u1", "u2", "pu1", "pu2", "adm"}

Role(u) ==
    CASE u \in {"pu1", "pu2"} -> "PANDIT"
      [] u = "adm" -> "ADMIN"
      [] OTHER -> "USER"

\* PanditProfile rows: p1 is verified and accepts bookings; p2 waits for
\* verification; p3 is verified but has switched bookings off (its user
\* sends no request).
Pandits == {"p1", "p2", "p3"}

PanditProfile(p) ==
    CASE p = "p1" -> [user_id |-> "pu1", verification_status |-> "VERIFIED",
                      is_available |-> TRUE, base_fee |-> 1000]
      [] p = "p2" -> [user_id |-> "pu2", verification_status |-> "PENDING",
                      is_available |-> TRUE, base_fee |-> 1000]
      [] OTHER    -> [user_id |-> "pu3", verification_status |-> "VERIFIED",
                      is_available |-> FALSE, base_fee |-> 1000]

\* select(PanditProfile).where(PanditProfile.user_id == current_user.id)
PanditOfUser(u) ==
    CASE u = "pu1" -> "p1"
      [] u = "pu2" -> "p2"
      [] OTHER -> "none"

Poojas == {"j1"}

\* The one requested time: later than every value of the clock, so that
\* BookingCreateRequest.validate_scheduled_at accepts it.
SlotTime == MaxNow + 1

DateOf(t) == t \div 24

BookingIds == 1..MaxBookings
PaymentIds == 1..MaxBookings
OrderIds == 1..MaxOrders
AvailIds == 1..NumAvail
\* The UTC offsets a client may write scheduled_at with, and the one the
\* database driver hands a stored timestamptz back with.
Offsets == {"+00:00", "+05:30"}

StoredOffset == "+00:00"

\* datetime.isoformat(): the text of instant t written with offset tz; one
\* instant has a different text for every offset
isoformat(t, tz) == <<t, tz>>

\* f"slot_lock:{pandit_id}:{slot_datetime}"
SlotKey(p, text) == <<p, text>>

Keys == {SlotKey(p, isoformat(SlotTime, tz)) : p \in Pandits, tz \in Offsets}

Statuses ==
    {"DRAFT", "SLOT_LOCKED", "PAYMENT_PENDING", "AWAITING_PANDIT", "CONFIRMED",
     "IN_PROGRESS", "COMPLETED", "CANCELLED", "DECLINED"}

VARIABLES
    bookings,       \* booking id -> Booking row
    audit,          \* booking id -> sequence of BookingAuditLog rows
    payments,       \* payment id -> Payment row
    availability,   \* availability id -> PanditAvailability row
    base_fee,       \* pandit -> PanditProfile.base_fee
    notifications,  \* set of Notification rows
    slot_lock,      \* key -> owning booking id, or NoBooking
    orders,         \* gateway: order id -> receipt (booking id)
    paid,           \* gateway: orders the customer paid at checkout
    payouts,        \* gateway: payment id -> number of payouts created
    refunds,        \* gateway: payment id -> number of refunds created
    queue,          \* Celery: payment id -> number of queued payout tasks
    refund_queue,   \* Celery: payment id -> number of queued refund tasks
    now,            \* the clock, in hours
    req             \* request slot -> position and locals of its handler

dbvars == <<bookings, audit, payments, availability, notifications>>
gwvars == <<orders, paid, payouts, refunds>>
vars == <<bookings, audit, payments, availability, base_fee, notifications,
          slot_lock, orders, paid, payouts, refunds, queue, refund_queue, now, req>>

\* ------------------------------------------------------------ slot lock
\* SET key booking_id EX ttl NX
LockSlotAcquires(locks, k) == locks[k] = NoBooking

\* SET key booking_id EX ttl, without NX
lock_slot_overwrite(locks, k, b) == [locks EXCEPT ![k] = b]

lock_slot(locks, k, b) ==
    IF LockSlotAcquires(locks, k) THEN [locks EXCEPT ![k] = b] ELSE locks

\* delete_pattern over the pandit's keys instead of DEL key
release_slot_pattern(locks, k) ==
    [x \in DOMAIN locks |-> IF x[1] = k[1] THEN NoBooking ELSE locks[x]]

\* DEL key
release_slot(locks, k) == [locks EXCEPT ![k] = NoBooking]

\* GET key
get_slot_lock(locks, k) == locks[k]

\* ------------------------------------------------------------- requests
Idle ==
    [op |-> "idle", pc |-> "idle", by |-> "none", b |-> NoBooking, code |-> 0,
     prev |-> "none", pandit |-> "none", at |-> NoTime, slot |-> 0,
     tz |-> "none", key |-> <<>>, ret |-> "none", valid |-> FALSE, order |-> NoOrder, pay |-> 0, pstat |-> "none", event |-> "none",
     sel |-> <<>>, rem |-> {}]

Free(r) == req[r].pc \in {"idle", "done"}

Respond(r, op, u, b, code) ==
    req' = [req EXCEPT ![r] =
        [Idle EXCEPT !.op = op, !.pc = "done", !.by = u, !.b = b, !.code = code]]

Goto(r, pc) == req' = [req EXCEPT ![r].pc = pc]

\* ids no row and no pending insert has
CreatingIds == {req[r].b : r \in {x \in DOMAIN req : req[x].op = "create" /\ req[x].pc \in {"lock", "commit"}}}

FreshBookingIds == BookingIds \ (DOMAIN bookings \cup CreatingIds)

Append1(f, b, e) ==
    IF b \in DOMAIN f THEN [f EXCEPT ![b] = Append(@, e)]
    ELSE [x \in DOMAIN f \cup {b} |-> IF x = b THEN <<e>> ELSE f[x]]

\* _log_status_change: one BookingAuditLog row
AuditEntry(from, to, u) == [from_status |-> from, to_status |-> to, changed_by |-> u]

\* ------------------------------------------------------- create_booking
\* booking/router.py:183, read as the fee-table lookup (see the header)
PoojaFee(p, j) == base_fee[p]

PlatformFee(fee) == (fee * PLATFORM_COMMISSION_PERCENT) \div 100

HasAvailableSlot(p, t) ==
    \E s \in AvailIds :
        /\ availability[s].pandit_id = p
        /\ DateOf(availability[s].date) = DateOf(t)
        /\ ~availability[s].is_booked
        /\ ~availability[s].is_blocked

\* the guards without the test of the caller's role
CreateGuardCodeAnyRole(u, p, j, t) ==
    IF p \notin Pandits THEN 404
    ELSE IF PanditProfile(p).verification_status # "VERIFIED" THEN 400
    ELSE IF ~PanditProfile(p).is_available THEN 400
    ELSE IF j \notin Poojas THEN 404
    ELSE IF ~HasAvailableSlot(p, t) THEN 400
    ELSE 0

\* the status code of the first failing guard of lines 135-169, 0 when none fails
CreateGuardCode(u, p, j, t) ==
    IF Role(u) = "PANDIT" THEN 403
    ELSE IF p \notin Pandits THEN 404
    ELSE IF PanditProfile(p).verification_status # "VERIFIED" THEN 400
    ELSE IF ~PanditProfile(p).is_available THEN 400
    ELSE IF j \notin Poojas THEN 404
    ELSE IF ~HasAvailableSlot(p, t) THEN 400
    ELSE 0

CreateValidate(r, u, p, j, t, tz) ==
    /\ Free(r)
    /\ IF CreateGuardCode(u, p, j, t) # 0
       THEN Respond(r, "create", u, NoBooking, CreateGuardCode(u, p, j, t))
       ELSE /\ FreshBookingIds # {}
            /\ req' = [req EXCEPT ![r] =
                 [Idle EXCEPT !.op = "create", !.pc = "read_lock", !.by = u,
                              !.pandit = p, !.at = t, !.tz = tz]]
    /\ UNCHANGED <<dbvars, slot_lock, gwvars, queue, refund_queue, now, base_fee>>

\* lines 175-180
CreateReadLock(r) ==
    /\ req[r].op = "create" /\ req[r].pc = "read_lock"
    /\ IF get_slot_lock(slot_lock, SlotKey(req[r].pandit, isoformat(req[r].at, req[r].tz))) # NoBooking
       THEN Respond(r, "create", req[r].by, NoBooking, 409)
       ELSE Goto(r, "persist")
    /\ UNCHANGED <<dbvars, slot_lock, gwvars, queue, refund_queue, now, base_fee>>

\* default=uuid.uuid4: ids are opaque and never compared, so the model hands
\* them out in order
NewBookingId == CHOOSE b \in FreshBookingIds : \A x \in FreshBookingIds : b <= x

\* lines 182-206: the row is flushed (it has its id) but not yet committed
CreatePersist(r) ==
    /\ req[r].op = "create" /\ req[r].pc = "persist"
    /\ FreshBookingIds # {}
    /\ req' = [req EXCEPT ![r].pc = "lock", ![r].b = NewBookingId]
    /\ UNCHANGED <<dbvars, slot_lock, gwvars, queue, refund_queue, now, base_fee>>

\* line 183 as Python evaluates it: float() of a dict raises TypeError, the
\* handler ends with 500 before the Booking is built; get_db rolls back and
\* the slot lock of line 209 is never asked for
CreatePersistAsWritten(r) ==
    /\ req[r].op = "create" /\ req[r].pc = "persist"
    /\ Respond(r, "create", req[r].by, NoBooking, 500)
    /\ UNCHANGED <<dbvars, slot_lock, gwvars, queue, refund_queue, now, base_fee>>

\* line 209: the result of lock_slot is not looked at
CreateLock(r) ==
    /\ req[r].op = "create" /\ req[r].pc = "lock"
    /\ slot_lock' = lock_slot(slot_lock, SlotKey(req[r].pandit, isoformat(req[r].at, req[r].tz)),
                          req[r].b)
    /\ Goto(r, "commit")
    /\ UNCHANGED <<dbvars, gwvars, queue, refund_queue, now, base_fee>>

NewBooking(u, p, j, t) ==
    [user_id |-> u, pandit_id |-> p, pooja_id |-> j, scheduled_at |-> t,
     status |-> "SLOT_LOCKED",
     base_amount |-> PoojaFee(p, j),
     platform_fee |-> PlatformFee(PoojaFee(p, j)),
     total_amount |-> PoojaFee(p, j) + PlatformFee(PoojaFee(p, j)),
     pandit_payout |-> PoojaFee(p, j) - PlatformFee(PoojaFee(p, j)),
     accept_deadline |-> t - BOOKING_ACCEPT_DEADLINE_HOURS,
     cancellation_reason |-> "none", decline_reason |-> "none",
     cancelled_by |-> "none",
     confirmed_at |-> NoTime, completed_at |-> NoTime, cancelled_at |-> NoTime]

\* lines 211-215
CreateCommit(r) ==
    /\ req[r].op = "create" /\ req[r].pc = "commit"
    /\ bookings' = [x \in DOMAIN bookings \cup {req[r].b} |->
                      IF x = req[r].b
                      THEN NewBooking(req[r].by, req[r].pandit, "j1", req[r].at)
                      ELSE bookings[x]]
    /\ audit' = Append1(audit, req[r].b, AuditEntry("none", "SLOT_LOCKED", req[r].by))
    /\ Respond(r, "create", req[r].by, req[r].b, 201)
    /\ UNCHANGED <<payments, availability, notifications, slot_lock, gwvars, queue, refund_queue, now, base_fee>>

\* ---------------------------------------------------- payment_confirmed
\* lines 231-234; the endpoint has no authentication dependency
PaymentConfirmedGuardCode(b) ==
    IF b \notin DOMAIN bookings THEN 404
    ELSE IF bookings[b].status \notin {"SLOT_LOCKED", "PAYMENT_PENDING"} THEN 400
    ELSE 0

PaymentConfirmedBegin(r, b) ==
    /\ Free(r)
    /\ IF PaymentConfirmedGuardCode(b) # 0
       THEN Respond(r, "payment_confirmed", "none", b, PaymentConfirmedGuardCode(b))
       ELSE req' = [req EXCEPT ![r] =
              [Idle EXCEPT !.op = "payment_confirmed", !.pc = "commit", !.b = b,
                           !.prev = bookings[b].status]]
    /\ UNCHANGED <<dbvars, slot_lock, gwvars, queue, refund_queue, now, base_fee>>

\* lines 236-256: no audit row is written
PaymentConfirmedCommit(r) ==
    /\ req[r].op = "payment_confirmed" /\ req[r].pc = "commit"
    /\ bookings' = [bookings EXCEPT ![req[r].b].status = "AWAITING_PANDIT"]
    /\ notifications' = notifications \cup
         {[user_id |-> PanditProfile(bookings[req[r].b].pandit_id).user_id,
           booking_id |-> req[r].b, type |-> "BOOKING_CREATED"]}
    /\ Respond(r, "payment_confirmed", "none", req[r].b, 200)
    /\ UNCHANGED <<audit, payments, availability, slot_lock, gwvars, queue, refund_queue, now, base_fee>>

\* ------------------------------------------------------- accept_booking
\* require_pandit = RoleRequired(PANDIT, ADMIN)
RequirePandit(u) == Role(u) \in {"PANDIT", "ADMIN"}

\* an ownership check that only asks for some pandit profile
OwnsBookingAnyProfile(u, b) == PanditOfUser(u) # "none"

\* lines 272-278, shared by accept, decline and complete
OwnsBooking(u, b) ==
    PanditOfUser(u) # "none" /\ bookings[b].pandit_id = PanditOfUser(u)

AuditRoom(b) == b \in DOMAIN audit => Len(audit[b]) < MaxAudit

\* a deadline check that is one hour late
DeadlinePassedLate(b) ==
    bookings[b].accept_deadline # NoTime /\ now > bookings[b].accept_deadline + 1

DeadlinePassed(b) ==
    bookings[b].accept_deadline # NoTime /\ now > bookings[b].accept_deadline

\* the guards with a deadline that already counts at the deadline itself
AcceptGuardCodeStrictDeadline(u, b) ==
    IF ~RequirePandit(u) THEN 403
    ELSE IF b \notin DOMAIN bookings THEN 404
    ELSE IF ~OwnsBooking(u, b) THEN 403
    ELSE IF bookings[b].status # "AWAITING_PANDIT" THEN 400
    ELSE IF now >= bookings[b].accept_deadline THEN 400
    ELSE 0

\* lines 265-288
AcceptGuardCode(u, b) ==
    IF ~RequirePandit(u) THEN 403
    ELSE IF b \notin DOMAIN bookings THEN 404
    ELSE IF ~OwnsBooking(u, b) THEN 403
    ELSE IF bookings[b].status # "AWAITING_PANDIT" THEN 400
    ELSE IF DeadlinePassed(b) THEN 400
    ELSE 0

AcceptBegin(r, u, b) ==
    /\ Free(r)
    /\ IF AcceptGuardCode(u, b) # 0
       THEN Respond(r, "accept", u, b, AcceptGuardCode(u, b))
       ELSE /\ AuditRoom(b)
            /\ req' = [req EXCEPT ![r] =
                 [Idle EXCEPT !.op = "accept", !.pc = "find_slot", !.by = u, !.b = b,
                              !.prev = bookings[b].status, !.at = now,
                              !.pandit = PanditOfUser(u)]]
    /\ UNCHANGED <<dbvars, slot_lock, gwvars, queue, refund_queue, now, base_fee>>

\* lines 295-302: the rows .first() may return (the query has no ORDER BY)
AcceptSlotCandidates(p, t) ==
    {s \in AvailIds : /\ availability[s].pandit_id = p
                      /\ DateOf(availability[s].date) = DateOf(t)
                      /\ ~availability[s].is_booked}

AcceptFindSlot(r) ==
    /\ req[r].op = "accept" /\ req[r].pc = "find_slot"
    /\ LET c == AcceptSlotCandidates(req[r].pandit, bookings[req[r].b].scheduled_at)
       IN  IF c = {} THEN req' = [req EXCEPT ![r].pc = "release", ![r].slot = 0]
           ELSE \E s \in c : req' = [req EXCEPT ![r].pc = "release", ![r].slot = s]
    /\ UNCHANGED <<dbvars, slot_lock, gwvars, queue, refund_queue, now, base_fee>>

\* lines 307-309
AcceptRelease(r) ==
    /\ req[r].op = "accept" /\ req[r].pc = "release"
    /\ slot_lock' = release_slot(slot_lock,
                       SlotKey(req[r].pandit,
                               isoformat(bookings[req[r].b].scheduled_at, StoredOffset)))
    /\ Goto(r, "commit")
    /\ UNCHANGED <<dbvars, gwvars, queue, refund_queue, now, base_fee>>

\* lines 290-292, 303-305, 311-324
AcceptCommit(r) ==
    /\ req[r].op = "accept" /\ req[r].pc = "commit"
    /\ bookings' = [bookings EXCEPT ![req[r].b].status = "CONFIRMED",
                                    ![req[r].b].confirmed_at = req[r].at]
    /\ availability' =
         IF req[r].slot = 0 THEN availability
         ELSE [availability EXCEPT ![req[r].slot].is_booked = TRUE,
                                   ![req[r].slot].booking_id = req[r].b]
    /\ audit' = Append1(audit, req[r].b, AuditEntry(req[r].prev, "CONFIRMED", req[r].by))
    /\ notifications' = notifications \cup
         {[user_id |-> bookings[req[r].b].user_id, booking_id |-> req[r].b,
           type |-> "BOOKING_CONFIRMED"]}
    /\ Respond(r, "accept", req[r].by, req[r].b, 200)
    /\ UNCHANGED <<payments, slot_lock, gwvars, queue, refund_queue, now, base_fee>>

\* ------------------------------------------------------ decline_booking
\* lines 332-350
DeclineGuardCode(u, b) ==
    IF ~RequirePandit(u) THEN 403
    ELSE IF b \notin DOMAIN bookings THEN 404
    ELSE IF ~OwnsBooking(u, b) THEN 403
    ELSE IF bookings[b].status # "AWAITING_PANDIT" THEN 400
    ELSE 0

DeclineBegin(r, u, b) ==
    /\ Free(r)
    /\ IF DeclineGuardCode(u, b) # 0
       THEN Respond(r, "decline", u, b, DeclineGuardCode(u, b))
       ELSE /\ AuditRoom(b)
            /\ req' = [req EXCEPT ![r] =
                 [Idle EXCEPT !.op = "decline", !.pc = "release", !.by = u, !.b = b,
                              !.prev = bookings[b].status, !.at = now,
                              !.pandit = PanditOfUser(u)]]
    /\ UNCHANGED <<dbvars, slot_lock, gwvars, queue, refund_queue, now, base_fee>>

\* lines 357-359
DeclineRelease(r) ==
    /\ req[r].op = "decline" /\ req[r].pc = "release"
    /\ slot_lock' = release_slot(slot_lock,
                       SlotKey(req[r].pandit,
                               isoformat(bookings[req[r].b].scheduled_at, StoredOffset)))
    /\ Goto(r, "commit")
    /\ UNCHANGED <<dbvars, gwvars, queue, refund_queue, now, base_fee>>

\* line 359 when Redis is unreachable: the call raises, nothing catches it,
\* get_db rolls the session back and the request ends with 500
DeclineReleaseFails(r) ==
    /\ req[r].op = "decline" /\ req[r].pc = "release"
    /\ Respond(r, "decline", req[r].by, req[r].b, 500)
    /\ UNCHANGED <<dbvars, slot_lock, gwvars, queue, refund_queue, now, base_fee>>

\* lines 352-355, 361-379
DeclineCommit(r) ==
    /\ req[r].op = "decline" /\ req[r].pc = "commit"
    /\ bookings' = [bookings EXCEPT ![req[r].b].status = "DECLINED",
                                    ![req[r].b].decline_reason = "reason",
                                    ![req[r].b].cancelled_at = req[r].at]
    /\ audit' = Append1(audit, req[r].b, AuditEntry(req[r].prev, "DECLINED", req[r].by))
    /\ notifications' = notifications \cup
         {[user_id |-> bookings[req[r].b].user_id, booking_id |-> req[r].b,
           type |-> "BOOKING_DECLINED"]}
    /\ Respond(r, "decline", req[r].by, req[r].b, 200)
    /\ UNCHANGED <<payments, availability, slot_lock, gwvars, queue, refund_queue, now, base_fee>>

\* ----------------------------------------------------- complete_booking
\* lines 385-399
CompleteGuardCode(u, b) ==
    IF ~RequirePandit(u) THEN 403
    ELSE IF b \notin DOMAIN bookings THEN 404
    ELSE IF ~OwnsBooking(u, b) THEN 403
    ELSE IF bookings[b].status # "CONFIRMED" THEN 400
    ELSE 0

CompleteBegin(r, u, b) ==
    /\ Free(r)
    /\ IF CompleteGuardCode(u, b) # 0
       THEN Respond(r, "complete", u, b, CompleteGuardCode(u, b))
       ELSE /\ AuditRoom(b)
            /\ req' = [req EXCEPT ![r] =
                 [Idle EXCEPT !.op = "complete", !.pc = "commit", !.by = u, !.b = b,
                              !.prev = bookings[b].status, !.at = now]]
    /\ UNCHANGED <<dbvars, slot_lock, gwvars, queue, refund_queue, now, base_fee>>

\* lines 401-411
CompleteCommit(r) ==
    /\ req[r].op = "complete" /\ req[r].pc = "commit"
    /\ bookings' = [bookings EXCEPT ![req[r].b].status = "COMPLETED",
                                    ![req[r].b].completed_at = req[r].at]
    /\ audit' = Append1(audit, req[r].b, AuditEntry(req[r].prev, "COMPLETED", req[r].by))
    /\ Respond(r, "complete", req[r].by, req[r].b, 200)
    /\ UNCHANGED <<payments, availability, notifications, slot_lock, gwvars, queue, refund_queue, now, base_fee>>

\* ------------------------------------------------------- cancel_booking
\* a cancellable set that lets an already cancelled booking through
CancellableStatusesAndCancelled ==
    {"SLOT_LOCKED", "PAYMENT_PENDING", "AWAITING_PANDIT", "CONFIRMED", "CANCELLED"}

\* lines 432-437
CancellableStatuses == {"SLOT_LOCKED", "PAYMENT_PENDING", "AWAITING_PANDIT", "CONFIRMED"}

\* lines 426-442
CancelGuardCode(u, b) ==
    IF b \notin DOMAIN bookings THEN 404
    ELSE IF Role(u) = "USER" /\ bookings[b].user_id # u THEN 403
    ELSE IF bookings[b].status \notin CancellableStatuses THEN 400
    ELSE 0

CancelBegin(r, u, b) ==
    /\ Free(r)
    /\ IF CancelGuardCode(u, b) # 0
       THEN Respond(r, "cancel", u, b, CancelGuardCode(u, b))
       ELSE /\ AuditRoom(b)
            /\ req' = [req EXCEPT ![r] =
                 [Idle EXCEPT !.op = "cancel", !.pc = "release", !.by = u, !.b = b,
                              !.prev = bookings[b].status, !.at = now,
                              !.pandit = bookings[b].pandit_id]]
    /\ UNCHANGED <<dbvars, slot_lock, gwvars, queue, refund_queue, now, base_fee>>

\* lines 450-457
CancelRelease(r) ==
    /\ req[r].op = "cancel" /\ req[r].pc = "release"
    /\ slot_lock' = release_slot(slot_lock,
                       SlotKey(req[r].pandit,
                               isoformat(bookings[req[r].b].scheduled_at, StoredOffset)))
    /\ Goto(r, "find_slot")
    /\ UNCHANGED <<dbvars, gwvars, queue, refund_queue, now, base_fee>>

\* line 457 when Redis is unreachable: as in decline_booking
CancelReleaseFails(r) ==
    /\ req[r].op = "cancel" /\ req[r].pc = "release"
    /\ Respond(r, "cancel", req[r].by, req[r].b, 500)
    /\ UNCHANGED <<dbvars, slot_lock, gwvars, queue, refund_queue, now, base_fee>>

\* lines 459-463: scalar_one_or_none raises when two rows carry the booking
CancelFindSlot(r) ==
    /\ req[r].op = "cancel" /\ req[r].pc = "find_slot"
    /\ LET c == {s \in AvailIds : availability[s].booking_id = req[r].b}
       IN  IF Cardinality(c) > 1 THEN Respond(r, "cancel", req[r].by, req[r].b, 500)
           ELSE IF c = {} THEN req' = [req EXCEPT ![r].pc = "commit", ![r].slot = 0]
           ELSE req' = [req EXCEPT ![r].pc = "commit", ![r].slot = CHOOSE s \in c : TRUE]
    /\ UNCHANGED <<dbvars, slot_lock, gwvars, queue, refund_queue, now, base_fee>>

\* lines 444-448, 464-476
CancelCommit(r) ==
    /\ req[r].op = "cancel" /\ req[r].pc = "commit"
    /\ bookings' = [bookings EXCEPT ![req[r].b].status = "CANCELLED",
                                    ![req[r].b].cancellation_reason = "reason",
                                    ![req[r].b].cancelled_by = Role(req[r].by),
                                    ![req[r].b].cancelled_at = req[r].at]
    /\ availability' =
         IF req[r].slot = 0 THEN availability
         ELSE [availability EXCEPT ![req[r].slot].is_booked = FALSE,
                                   ![req[r].slot].booking_id = NoBooking]
    /\ audit' = Append1(audit, req[r].b, AuditEntry(req[r].prev, "CANCELLED", req[r].by))
    /\ Respond(r, "cancel", req[r].by, req[r].b, 200)
    /\ UNCHANGED <<payments, notifications, slot_lock, gwvars, queue, refund_queue, now, base_fee>>

\* ----------------------------------------------------- initiate_payment
\* select(Payment).where(Payment.booking_id == booking.id)
PaymentsOf(b) == {p \in DOMAIN payments : payments[p].booking_id = b}

PaymentOf(b) == IF PaymentsOf(b) = {} THEN NoPayment ELSE CHOOSE p \in PaymentsOf(b) : TRUE

\* payment/router.py lines 61-84
InitiateGuardCode(u, b) ==
    IF b \notin DOMAIN bookings \/ bookings[b].user_id # u THEN 404
    ELSE IF bookings[b].status \notin {"SLOT_LOCKED", "PAYMENT_PENDING"} THEN 400
    ELSE IF PaymentOf(b) # NoPayment /\ payments[PaymentOf(b)].status = "CAPTURED" THEN 400
    ELSE 0

\* the handler up to the gateway call, while the gateway has fewer than n
\* orders
InitiateBeginWithin(r, u, b, n) ==
    /\ Free(r)
    /\ IF InitiateGuardCode(u, b) # 0
       THEN Respond(r, "initiate", u, b, InitiateGuardCode(u, b))
       ELSE /\ Cardinality(DOMAIN orders) < n
            /\ req' = [req EXCEPT ![r] =
                 [Idle EXCEPT !.op = "initiate", !.pc = "order", !.by = u, !.b = b,
                              !.prev = bookings[b].status, !.pay = PaymentOf(b)]]
    /\ UNCHANGED <<dbvars, slot_lock, gwvars, queue, refund_queue, now, base_fee>>

InitiateBegin(r, u, b) == InitiateBeginWithin(r, u, b, MaxOrders)

\* lines 86-101: the gateway creates the order, or the call raises
InitiateOrder(r) ==
    /\ req[r].op = "initiate" /\ req[r].pc = "order"
    /\ \/ /\ Respond(r, "initiate", req[r].by, req[r].b, 502)
          /\ UNCHANGED orders
       \/ LET o == Cardinality(DOMAIN orders) + 1
          IN  /\ orders' = [x \in DOMAIN orders \cup {o} |->
                              IF x = o THEN req[r].b ELSE orders[x]]
              /\ req' = [req EXCEPT ![r].pc = "commit", ![r].order = o]
    /\ UNCHANGED <<dbvars, slot_lock, paid, payouts, refunds, queue, refund_queue, now, base_fee>>

NewPayment(b, u, o) ==
    [booking_id |-> b, user_id |-> u, razorpay_order_id |-> o,
     razorpay_payment_id |-> NoOrder, status |-> "PENDING", captured_at |-> NoTime,
     refund_id |-> 0, payout_id |-> 0]

\* the writes on a table without the unique booking_id
InitiateCommitNoUnique(r) ==
    /\ req[r].op = "initiate" /\ req[r].pc = "commit"
    /\ payments' =
         IF req[r].pay # NoPayment
         THEN [payments EXCEPT ![req[r].pay].razorpay_order_id = req[r].order]
         ELSE LET p == Cardinality(DOMAIN payments) + 1
              IN  [x \in DOMAIN payments \cup {p} |->
                     IF x = p THEN NewPayment(req[r].b, req[r].by, req[r].order)
                     ELSE payments[x]]
    /\ bookings' = [bookings EXCEPT ![req[r].b].status = "PAYMENT_PENDING"]
    /\ Respond(r, "initiate", req[r].by, req[r].b, 200)
    /\ UNCHANGED <<audit, availability, notifications, slot_lock, gwvars, queue, refund_queue, now, base_fee>>

\* lines 103-119: no audit row is written.  The insert fails on the unique
\* booking_id when another request has committed a payment for the booking.
InitiateCommit(r) ==
    /\ req[r].op = "initiate" /\ req[r].pc = "commit"
    /\ IF req[r].pay = NoPayment /\ PaymentsOf(req[r].b) # {}
       THEN /\ Respond(r, "initiate", req[r].by, req[r].b, 500)
            /\ UNCHANGED <<bookings, payments>>
       ELSE /\ payments' =
                 IF req[r].pay # NoPayment
                 THEN [payments EXCEPT ![req[r].pay].razorpay_order_id = req[r].order]
                 ELSE LET p == Cardinality(DOMAIN payments) + 1
                      IN  [x \in DOMAIN payments \cup {p} |->
                             IF x = p THEN NewPayment(req[r].b, req[r].by, req[r].order)
                             ELSE payments[x]]
            /\ bookings' = [bookings EXCEPT ![req[r].b].status = "PAYMENT_PENDING"]
            /\ Respond(r, "initiate", req[r].by, req[r].b, 200)
    /\ UNCHANGED <<audit, availability, notifications, slot_lock, gwvars, queue, refund_queue, now, base_fee>>

\* the customer pays an order at the gateway's checkout; from then on the
\* gateway's signature over (order id | payment id) exists
GatewayCheckout(o) ==
    /\ o \in DOMAIN orders /\ o \notin paid
    /\ paid' = paid \cup {o}
    /\ UNCHANGED <<dbvars, slot_lock, orders, payouts, refunds, queue, refund_queue, now, req, base_fee>>

\* ------------------------------------------------------- verify_payment
\* select(Payment).where(Payment.razorpay_order_id == data.razorpay_order_id)
PaymentByOrder(o) ==
    IF \E p \in DOMAIN payments : payments[p].razorpay_order_id = o
    THEN CHOOSE p \in DOMAIN payments : payments[p].razorpay_order_id = o
    ELSE NoPayment

\* lines 142-161
VerifyGuardCode(o, valid) ==
    IF ~valid THEN 400
    ELSE IF PaymentByOrder(o) = NoPayment THEN 404
    ELSE 0

\* lines 168-173: the booking is the one the request names, in any status
VerifyTargets(b) == b \in DOMAIN bookings

VerifyBegin(r, u, o, valid, b) ==
    /\ Free(r)
    /\ valid => o \in paid
    /\ IF VerifyGuardCode(o, valid) # 0
       THEN req' = [req EXCEPT ![r] =
              [Idle EXCEPT !.op = "verify", !.pc = "done", !.by = u, !.b = b,
                           !.code = VerifyGuardCode(o, valid), !.valid = valid]]
       ELSE req' = [req EXCEPT ![r] =
              [Idle EXCEPT !.op = "verify", !.pc = "commit", !.by = u, !.valid = valid,
                           !.b = IF VerifyTargets(b) THEN b ELSE NoBooking,
                           !.order = o, !.pay = PaymentByOrder(o), !.at = now]]
    /\ UNCHANGED <<dbvars, slot_lock, gwvars, queue, refund_queue, now, base_fee>>

\* lines 163-166, 174-192: no audit row is written
VerifyCommit(r) ==
    /\ req[r].op = "verify" /\ req[r].pc = "commit"
    /\ payments' = [payments EXCEPT ![req[r].pay].razorpay_payment_id = req[r].order,
                                    ![req[r].pay].status = "CAPTURED",
                                    ![req[r].pay].captured_at = req[r].at]
    /\ IF req[r].b = NoBooking
       THEN UNCHANGED <<bookings, notifications>>
       ELSE /\ bookings' = [bookings EXCEPT ![req[r].b].status = "AWAITING_PANDIT"]
            /\ notifications' = notifications \cup
                 {[user_id |-> PanditProfile(bookings[req[r].b].pandit_id).user_id,
                   booking_id |-> req[r].b, type |-> "BOOKING_CREATED"]}
    /\ Respond(r, "verify", req[r].by, req[r].b, 200)
    /\ UNCHANGED <<audit, availability, slot_lock, gwvars, queue, refund_queue, now, base_fee>>

\* ------------------------------------------------------- refund_payment
\* payment/router.py lines 267-284; require_admin = RoleRequired(ADMIN)
RefundGuardCode(u, p) ==
    IF Role(u) # "ADMIN" THEN 403
    ELSE IF p \notin DOMAIN payments THEN 404
    ELSE IF payments[p].status # "CAPTURED" THEN 400
    ELSE IF payments[p].razorpay_payment_id = NoOrder THEN 400
    ELSE 0

RefundBegin(r, u, p) ==
    /\ Free(r)
    /\ refunds[p] < MaxRefunds
    /\ IF RefundGuardCode(u, p) # 0
       THEN Respond(r, "refund", u, NoBooking, RefundGuardCode(u, p))
       ELSE req' = [req EXCEPT ![r] =
              [Idle EXCEPT !.op = "refund", !.pc = "commit", !.by = u, !.pay = p,
                           !.at = now]]
    /\ UNCHANGED <<dbvars, slot_lock, gwvars, queue, refund_queue, now, base_fee>>

\* lines 286-300: the gateway makes the refund and the row is written (a full
\* refund; the gateway's refund id is the payment's number)
RefundCommit(r) ==
    /\ req[r].op = "refund" /\ req[r].pc = "commit"
    /\ payments' = [payments EXCEPT ![req[r].pay].status = "REFUNDED",
                                    ![req[r].pay].refund_id = req[r].pay]
    /\ refunds' = [refunds EXCEPT ![req[r].pay] = @ + 1]
    /\ Respond(r, "refund", req[r].by, NoBooking, 200)
    /\ UNCHANGED <<bookings, audit, availability, notifications, slot_lock, orders,
                   paid, payouts, queue, refund_queue, now, base_fee>>

\* ------------------------------------------------------ razorpay_webhook
WebhookEvents == {"payment.captured", "payment.failed"}

\* the guards without the test of the body's signature
WebhookGuardCodeUnsigned(o, valid) ==
    IF PaymentByOrder(o) = NoPayment THEN 200 ELSE 0

\* lines 203-232
WebhookGuardCode(o, valid) ==
    IF ~valid THEN 400
    ELSE IF PaymentByOrder(o) = NoPayment THEN 200
    ELSE 0

\* a compensation that also cancels a booking already paid for
WebhookCancelsAwaiting(st) == st \in {"PAYMENT_PENDING", "AWAITING_PANDIT"}

\* line 248
WebhookCancels(st) == st = "PAYMENT_PENDING"

WebhookBegin(r, ev, o, valid) ==
    /\ Free(r)
    /\ valid => /\ o \in DOMAIN orders
                /\ ev = "payment.captured" => o \in paid
    /\ IF WebhookGuardCode(o, valid) # 0
       THEN req' = [req EXCEPT ![r] =
              [Idle EXCEPT !.op = "webhook", !.pc = "done",
                           !.code = WebhookGuardCode(o, valid), !.valid = valid]]
       ELSE LET p == PaymentByOrder(o)
            IN  req' = [req EXCEPT ![r] =
                  [Idle EXCEPT !.op = "webhook", !.pc = "commit", !.event = ev,
                               !.valid = valid,
                               !.order = o, !.pay = p, !.pstat = payments[p].status,
                               !.b = payments[p].booking_id,
                               !.prev = bookings[payments[p].booking_id].status,
                               !.at = now]]
    /\ UNCHANGED <<dbvars, slot_lock, gwvars, queue, refund_queue, now, base_fee>>

\* lines 234-261: no audit row is written and the slot lock is not released
WebhookCommit(r) ==
    /\ req[r].op = "webhook" /\ req[r].pc = "commit"
    /\ payments' =
         IF req[r].event = "payment.captured"
         THEN IF req[r].pstat # "CAPTURED"
              THEN [payments EXCEPT ![req[r].pay].status = "CAPTURED",
                                    ![req[r].pay].razorpay_payment_id = req[r].order,
                                    ![req[r].pay].captured_at = req[r].at]
              ELSE payments
         ELSE [payments EXCEPT ![req[r].pay].status = "FAILED"]
    /\ bookings' =
         IF req[r].event = "payment.failed" /\ WebhookCancels(req[r].prev)
         THEN [bookings EXCEPT ![req[r].b].status = "CANCELLED",
                               ![req[r].b].cancellation_reason = "Payment failed",
                               ![req[r].b].cancelled_at = req[r].at]
         ELSE bookings
    /\ Respond(r, "webhook", "none", req[r].b, 200)
    /\ UNCHANGED <<audit, availability, notifications, slot_lock, gwvars, queue, refund_queue, now, base_fee>>

\* ------------------------------------------- release_expired_slot_locks
\* a selection that takes cancelled bookings again
SweepStatusesAndCancelled == {"SLOT_LOCKED", "PAYMENT_PENDING", "CANCELLED"}

\* tasks/payment_tasks.py lines 274
SweepStatuses == {"SLOT_LOCKED", "PAYMENT_PENDING"}

\* lines 272-277
StuckBookings ==
    {b \in DOMAIN bookings : /\ bookings[b].status \in SweepStatuses
                             /\ bookings[b].accept_deadline # NoTime
                             /\ bookings[b].accept_deadline < now}

SweepSelect(r) ==
    /\ Free(r)
    /\ \A b \in StuckBookings : AuditRoom(b)
    /\ IF StuckBookings = {}
       THEN Respond(r, "sweep", "system", NoBooking, 0)
       ELSE req' = [req EXCEPT ![r] =
              [Idle EXCEPT !.op = "sweep", !.pc = "release", !.by = "system", !.at = now,
                           !.sel = [b \in StuckBookings |-> bookings[b].status],
                           !.rem = StuckBookings]]
    /\ UNCHANGED <<dbvars, slot_lock, gwvars, queue, refund_queue, now, base_fee>>

\* lines 298-300, once per selected booking
SweepRelease(r) ==
    /\ req[r].op = "sweep" /\ req[r].pc = "release"
    /\ \E b \in req[r].rem :
         /\ slot_lock' = release_slot(slot_lock,
                            SlotKey(bookings[b].pandit_id,
                                    isoformat(bookings[b].scheduled_at, StoredOffset)))
         /\ req' = [req EXCEPT ![r].rem = @ \ {b},
                               ![r].pc = IF req[r].rem = {b} THEN "commit" ELSE "release"]
    /\ UNCHANGED <<dbvars, gwvars, queue, refund_queue, now, base_fee>>

\* lines 282-296, 304
SweepCommit(r) ==
    /\ req[r].op = "sweep" /\ req[r].pc = "commit"
    /\ bookings' = [b \in DOMAIN bookings |->
         IF b \in DOMAIN req[r].sel
         THEN [bookings[b] EXCEPT !.status = "CANCELLED",
                                  !.cancellation_reason = "Payment window expired",
                                  !.cancelled_at = req[r].at]
         ELSE bookings[b]]
    /\ audit' = [b \in DOMAIN audit |->
         IF b \in DOMAIN req[r].sel
         THEN Append(audit[b], AuditEntry(req[r].sel[b], "CANCELLED", "system"))
         ELSE audit[b]]
    /\ Respond(r, "sweep", "system", NoBooking, 0)
    /\ UNCHANGED <<payments, availability, notifications, slot_lock, gwvars, queue, refund_queue, now, base_fee>>

\* ------------------------------------------------- retry_failed_payment
\* lines 326-335
RetryFailedSkips(b) ==
    b \notin DOMAIN bookings \/ bookings[b].status \notin {"PAYMENT_PENDING", "SLOT_LOCKED"}

RetryFailedBegin(r, b) ==
    /\ Free(r)
    /\ IF RetryFailedSkips(b)
       THEN Respond(r, "retry_failed", "system", b, 0)
       ELSE /\ AuditRoom(b)
            /\ req' = [req EXCEPT ![r] =
                 [Idle EXCEPT !.op = "retry_failed", !.pc = "commit", !.by = "system",
                              !.b = b, !.prev = bookings[b].status, !.at = now]]
    /\ UNCHANGED <<dbvars, slot_lock, gwvars, queue, refund_queue, now, base_fee>>

\* lines 337-349
RetryFailedCommit(r) ==
    /\ req[r].op = "retry_failed" /\ req[r].pc = "commit"
    /\ bookings' = [bookings EXCEPT ![req[r].b].status = "CANCELLED",
                                    ![req[r].b].cancellation_reason = "Payment failed",
                                    ![req[r].b].cancelled_at = req[r].at]
    /\ audit' = Append1(audit, req[r].b, AuditEntry(req[r].prev, "CANCELLED", "system"))
    /\ Respond(r, "retry_failed", "system", req[r].b, 0)
    /\ UNCHANGED <<payments, availability, notifications, slot_lock, gwvars, queue, refund_queue, now, base_fee>>

\* ---------------------------------------------------------- payout tasks
\* payment_tasks.py:92,126,160, read as the booking's pandit_payout (see the header)
PayoutAmount(p) == bookings[payments[p].booking_id].pandit_payout

\* process_pending_payouts, lines 153-162
PendingPayouts ==
    {p \in DOMAIN payments : /\ bookings[payments[p].booking_id].status = "COMPLETED"
                             /\ payments[p].status = "CAPTURED"
                             /\ payments[p].payout_id = 0
                             /\ PayoutAmount(p) > 0}

\* lines 150-172: one process_single_payout task per selected payment
ProcessPendingPayouts ==
    /\ PendingPayouts # {}
    /\ \A p \in PendingPayouts : queue[p] < MaxQueued
    /\ queue' = [p \in PaymentIds |-> IF p \in PendingPayouts THEN queue[p] + 1 ELSE queue[p]]
    /\ UNCHANGED <<dbvars, slot_lock, gwvars, refund_queue, now, req, base_fee>>

\* the checks without the one on payout_id
PayoutSkipsNoIdempotency(p) ==
    \/ p \notin DOMAIN payments
    \/ payments[p].status # "CAPTURED"
    \/ bookings[payments[p].booking_id].status # "COMPLETED"

\* process_single_payout, lines 59-89
PayoutSkips(p) ==
    \/ p \notin DOMAIN payments
    \/ payments[p].payout_id # 0
    \/ payments[p].status # "CAPTURED"
    \/ bookings[payments[p].booking_id].status # "COMPLETED"

\* a worker takes a queued task and runs it up to the gateway call
PayoutBegin(r, p) ==
    /\ Free(r)
    /\ queue[p] > 0
    /\ queue' = [queue EXCEPT ![p] = @ - 1]
    /\ IF PayoutSkips(p)
       THEN Respond(r, "payout", "system", NoBooking, 0)
       ELSE req' = [req EXCEPT ![r] =
              [Idle EXCEPT !.op = "payout", !.pc = "gateway", !.by = "system",
                           !.pay = p, !.at = now]]
    /\ UNCHANGED <<dbvars, slot_lock, gwvars, refund_queue, now, base_fee>>

\* lines 96-122: the gateway creates the payout
PayoutGateway(r) ==
    /\ req[r].op = "payout" /\ req[r].pc = "gateway"
    /\ payouts' = [payouts EXCEPT ![req[r].pay] = @ + 1]
    /\ req' = [req EXCEPT ![r].pc = "commit", ![r].order = payouts[req[r].pay] + 1]
    /\ UNCHANGED <<dbvars, slot_lock, orders, paid, refunds, queue, refund_queue, now,
                   base_fee>>

\* lines 96-122 and 133-136: the gateway call raises; the session is rolled
\* back and self.retry sends the task again while retries are left
PayoutGatewayFails(r) ==
    /\ req[r].op = "payout" /\ req[r].pc = "gateway"
    /\ queue' = [queue EXCEPT ![req[r].pay] = IF @ < MaxQueued THEN @ + 1 ELSE @]
    /\ Respond(r, "payout", "system", NoBooking, 500)
    /\ UNCHANGED <<dbvars, slot_lock, gwvars, refund_queue, now, base_fee>>

\* lines 124-131
PayoutCommit(r) ==
    /\ req[r].op = "payout" /\ req[r].pc = "commit"
    /\ payments' = [payments EXCEPT ![req[r].pay].payout_id = req[r].order]
    /\ Respond(r, "payout", "system", NoBooking, 0)
    /\ UNCHANGED <<bookings, audit, availability, notifications, slot_lock, gwvars, queue, refund_queue, now, base_fee>>

\* ------------------------------------------------------- process_refund
\* the task is registered with Celery (payment_tasks.py:183); a
\* process_refund(payment_id) message is put on the queue
EnqueueProcessRefund(p) ==
    /\ p \in DOMAIN payments
    /\ refund_queue[p] < MaxQueued
    /\ refunds[p] < MaxRefunds
    /\ refund_queue' = [refund_queue EXCEPT ![p] = @ + 1]
    /\ UNCHANGED <<dbvars, slot_lock, gwvars, queue, now, req, base_fee>>

\* lines 199-217
RefundSkips(p) ==
    \/ p \notin DOMAIN payments
    \/ payments[p].refund_id # 0
    \/ payments[p].status = "REFUNDED"
    \/ payments[p].razorpay_payment_id = NoOrder

\* a worker takes a queued task and runs it up to the gateway call
ProcessRefundBegin(r, p) ==
    /\ Free(r)
    /\ refund_queue[p] > 0
    /\ refunds[p] < MaxRefunds
    /\ refund_queue' = [refund_queue EXCEPT ![p] = @ - 1]
    /\ IF RefundSkips(p)
       THEN Respond(r, "process_refund", "system", NoBooking, 0)
       ELSE req' = [req EXCEPT ![r] =
              [Idle EXCEPT !.op = "process_refund", !.pc = "gateway",
                           !.by = "system", !.pay = p, !.at = now]]
    /\ UNCHANGED <<dbvars, slot_lock, gwvars, queue, now, base_fee>>

\* lines 219-228: the gateway makes the refund
ProcessRefundGateway(r) ==
    /\ req[r].op = "process_refund" /\ req[r].pc = "gateway"
    /\ refunds' = [refunds EXCEPT ![req[r].pay] = @ + 1]
    /\ req' = [req EXCEPT ![r].pc = "commit"]
    /\ UNCHANGED <<dbvars, slot_lock, orders, paid, payouts, queue, refund_queue, now,
                   base_fee>>

\* a failure that keeps what the task would have written
ProcessRefundGatewayFailsNoRollback(r) ==
    /\ req[r].op = "process_refund" /\ req[r].pc = "gateway"
    /\ refund_queue' = [refund_queue EXCEPT ![req[r].pay] =
                          IF @ < MaxQueued THEN @ + 1 ELSE @]
    /\ payments' = [payments EXCEPT ![req[r].pay].status = "REFUNDED"]
    /\ Respond(r, "process_refund", "system", NoBooking, 500)
    /\ UNCHANGED <<bookings, audit, availability, notifications, slot_lock, gwvars,
                   queue, now, base_fee>>

\* lines 219-228 and 242-245: the gateway call raises; the session is rolled
\* back and self.retry sends the task again while retries are left
ProcessRefundGatewayFails(r) ==
    /\ req[r].op = "process_refund" /\ req[r].pc = "gateway"
    /\ refund_queue' = [refund_queue EXCEPT ![req[r].pay] =
                          IF @ < MaxQueued THEN @ + 1 ELSE @]
    /\ Respond(r, "process_refund", "system", NoBooking, 500)
    /\ UNCHANGED <<dbvars, slot_lock, gwvars, queue, now, base_fee>>

\* lines 230-240 (amount is None: a full refund)
ProcessRefundCommit(r) ==
    /\ req[r].op = "process_refund" /\ req[r].pc = "commit"
    /\ payments' = [payments EXCEPT ![req[r].pay].status = "REFUNDED",
                                    ![req[r].pay].refund_id = req[r].pay]
    /\ Respond(r, "process_refund", "system", NoBooking, 0)
    /\ UNCHANGED <<bookings, audit, availability, notifications, slot_lock, gwvars,
                   queue, refund_queue, now, base_fee>>

ProcessRefund(r) ==
    \/ \E p \in PaymentIds : ProcessRefundBegin(r, p)
    \/ ProcessRefundGateway(r)
    \/ ProcessRefundGatewayFails(r)
    \/ ProcessRefundCommit(r)

\* ---------------------------------------------------- update_my_profile
\* the fees a pandit may ask
Fees == {1000, 2000}

\* a fee change that also reprices the pandit's bookings
UpdateMyProfileRepricing(r, u, fee) ==
    /\ Free(r)
    /\ RequirePandit(u) /\ PanditOfUser(u) # "none"
    /\ base_fee' = [base_fee EXCEPT ![PanditOfUser(u)] = fee]
    /\ bookings' = [b \in DOMAIN bookings |->
         IF bookings[b].pandit_id = PanditOfUser(u)
         THEN [bookings[b] EXCEPT !.base_amount = fee,
                                  !.platform_fee = PlatformFee(fee),
                                  !.total_amount = fee + PlatformFee(fee),
                                  !.pandit_payout = fee - PlatformFee(fee)]
         ELSE bookings[b]]
    /\ Respond(r, "update_my_profile", u, NoBooking, 200)
    /\ UNCHANGED <<audit, payments, availability, notifications, slot_lock, gwvars,
                   queue, refund_queue, now>>

\* pandit/router.py lines 185-240, called by a user who has a profile, with
\* base_fee in the update: the profile row is the only row written
UpdateMyProfile(r, u, fee) ==
    /\ Free(r)
    /\ RequirePandit(u) /\ PanditOfUser(u) # "none"
    /\ base_fee' = [base_fee EXCEPT ![PanditOfUser(u)] = fee]
    /\ Respond(r, "update_my_profile", u, NoBooking, 200)
    /\ UNCHANGED <<bookings, audit, payments, availability, notifications, slot_lock,
                   gwvars, queue, refund_queue, now>>

\* ------------------------------------------------------------ environment
\* the clock
Tick ==
    /\ now < MaxNow
    /\ now' = now + 1
    /\ UNCHANGED <<dbvars, slot_lock, gwvars, queue, refund_queue, req, base_fee>>

\* Redis drops a slot lock when its TTL (REDIS_SLOT_LOCK_TTL) runs out
SlotLockExpire(k) ==
    /\ slot_lock[k] # NoBooking
    /\ slot_lock' = [slot_lock EXCEPT ![k] = NoBooking]
    /\ UNCHANGED <<dbvars, gwvars, queue, refund_queue, now, req, base_fee>>

\* --------------------------------------------------- RedisCache callers
\* One call of a slot-lock method of RedisCache by any client: the method is a
\* single Redis command, so the call is one step.  ret is what the caller
\* gets back.
LockSlot(r, k, b) ==
    /\ req[r].pc = "idle"
    /\ slot_lock' = lock_slot(slot_lock, k, b)
    /\ req' = [req EXCEPT ![r] =
         [Idle EXCEPT !.op = "lock_slot", !.pc = "done", !.key = k, !.b = b,
                      !.ret = IF LockSlotAcquires(slot_lock, k) THEN "true" ELSE "false"]]
    /\ UNCHANGED <<dbvars, gwvars, queue, refund_queue, now, base_fee>>

ReleaseSlot(r, k) ==
    /\ req[r].pc = "idle"
    /\ slot_lock' = release_slot(slot_lock, k)
    /\ req' = [req EXCEPT ![r] =
         [Idle EXCEPT !.op = "release_slot", !.pc = "done", !.key = k]]
    /\ UNCHANGED <<dbvars, gwvars, queue, refund_queue, now, base_fee>>

GetSlotLock(r, k) ==
    /\ req[r].pc = "idle"
    /\ req' = [req EXCEPT ![r] =
         [Idle EXCEPT !.op = "get_slot_lock", !.pc = "done", !.key = k,
                      !.b = get_slot_lock(slot_lock, k)]]
    /\ UNCHANGED <<dbvars, slot_lock, gwvars, queue, refund_queue, now, base_fee>>

\* ------------------------------------------------------------------ Init
NoRows == [x \in {} |-> 0]

Init ==
    /\ bookings = NoRows
    /\ audit = NoRows
    /\ payments = NoRows
    /\ availability = [s \in AvailIds |->
         [pandit_id |-> "p1", date |-> SlotTime, is_booked |-> FALSE,
          booking_id |-> NoBooking, is_blocked |-> FALSE]]
    /\ base_fee = [p \in Pandits |-> PanditProfile(p).base_fee]
    /\ notifications = {}
    /\ slot_lock = [k \in Keys |-> NoBooking]
    /\ orders = NoRows
    /\ paid = {}
    /\ payouts = [p \in PaymentIds |-> 0]
    /\ refunds = [p \in PaymentIds |-> 0]
    /\ queue = [p \in PaymentIds |-> 0]
    /\ refund_queue = [p \in PaymentIds |-> 0]
    /\ now = 0
    /\ req = [r \in {1, 2} |-> Idle]

CreateCallers == {"u1", "pu1"}

CreateBooking(r) ==
    \/ \E u \in CreateCallers, p \in Pandits \cup {"p0"}, j \in Poojas \cup {"j0"},
          tz \in Offsets :
         CreateValidate(r, u, p, j, SlotTime, tz)
    \/ CreateReadLock(r)
    \/ CreatePersist(r)
    \/ CreateLock(r)
    \/ CreateCommit(r)

PaymentConfirmed(r) ==
    \/ \E b \in BookingIds : PaymentConfirmedBegin(r, b)
    \/ PaymentConfirmedCommit(r)

AcceptBooking(r) ==
    \/ \E u \in Users, b \in BookingIds : AcceptBegin(r, u, b)
    \/ AcceptFindSlot(r)
    \/ AcceptRelease(r)
    \/ AcceptCommit(r)

DeclineBooking(r) ==
    \/ \E u \in Users, b \in BookingIds : DeclineBegin(r, u, b)
    \/ DeclineRelease(r)
    \/ DeclineCommit(r)

CompleteBooking(r) ==
    \/ \E u \in Users, b \in BookingIds : CompleteBegin(r, u, b)
    \/ CompleteCommit(r)

CancelBooking(r) ==
    \/ \E u \in Users, b \in BookingIds : CancelBegin(r, u, b)
    \/ CancelRelease(r)
    \/ CancelFindSlot(r)
    \/ CancelCommit(r)

InitiatePayment(r) ==
    \/ \E u \in {"u1", "u2"}, b \in BookingIds : InitiateBegin(r, u, b)
    \/ InitiateOrder(r)
    \/ InitiateCommit(r)

VerifyPayment(r) ==
    \/ \E o \in OrderIds, valid \in BOOLEAN, b \in BookingIds : VerifyBegin(r, "u1", o, valid, b)
    \/ VerifyCommit(r)

RazorpayWebhook(r) ==
    \/ \E ev \in WebhookEvents, o \in OrderIds, valid \in BOOLEAN : WebhookBegin(r, ev, o, valid)
    \/ WebhookCommit(r)

ReleaseExpiredSlotLocks(r) ==
    \/ SweepSelect(r)
    \/ SweepRelease(r)
    \/ SweepCommit(r)

RetryFailedPayment(r) ==
    \/ \E b \in BookingIds : RetryFailedBegin(r, b)
    \/ RetryFailedCommit(r)

RefundPayment(r) ==
    \/ \E u \in {"adm", "u1"}, p \in PaymentIds : RefundBegin(r, u, p)
    \/ RefundCommit(r)

ProcessSinglePayout(r) ==
    \/ \E p \in PaymentIds : PayoutBegin(r, p)
    \/ PayoutGateway(r)
    \/ PayoutCommit(r)

\* ------------------------------------------------------- specifications
\* the response of a finished request has been delivered
Return(r) ==
    /\ req[r].pc = "done"
    /\ req' = [req EXCEPT ![r] = Idle]
    /\ UNCHANGED <<dbvars, slot_lock, gwvars, queue, refund_queue, now, base_fee>>

Quiet == \A r \in DOMAIN req : req[r].pc # "done"

\* Spec: the whole saga of one booking, one request at a time; a response is
\* delivered before the next step is taken.
Next ==
    \/ (Quiet /\ DOMAIN bookings = {} /\ CreateBooking(1))
    \/ (Quiet /\ PaymentConfirmed(1))
    \/ (Quiet /\ AcceptBooking(1))
    \/ (Quiet /\ DeclineBooking(1))
    \/ (Quiet /\ CompleteBooking(1))
    \/ (Quiet /\ CancelBooking(1))
    \/ (Quiet /\ InitiatePayment(1))
    \/ (Quiet /\ \E o \in OrderIds : GatewayCheckout(o))
    \/ (Quiet /\ VerifyPayment(1))
    \/ (Quiet /\ RazorpayWebhook(1))
    \/ (Quiet /\ ReleaseExpiredSlotLocks(1))
    \/ (Quiet /\ RetryFailedPayment(1))
    \/ (Quiet /\ Tick)
    \/ (Quiet /\ \E k \in Keys : SlotLockExpire(k))
    \/ Return(1)

Spec == Init /\ [][Next]_vars

\* SpecCreateRace: two create_booking requests, one per slot, both for the
\* one (pandit, scheduled_at), interleaved step by step.
NextCreateRace ==
    \E r \in DOMAIN req :
        \/ \E u \in {"u1", "u2"}, p \in Pandits \cup {"p0"}, j \in Poojas \cup {"j0"},
              tz \in Offsets :
             req[r].pc = "idle" /\ CreateValidate(r, u, p, j, SlotTime, tz)
        \/ CreateReadLock(r)
        \/ CreatePersist(r)
        \/ CreateLock(r)
        \/ CreateCommit(r)

SpecCreateRace == Init /\ [][NextCreateRace]_vars

\* SpecSlots: bookings made one after the other for the one slot while time
\* passes and slot locks run out, one request at a time.
NextSlots ==
    \/ (Quiet /\ CreateBooking(1))
    \/ (Quiet /\ PaymentConfirmed(1))
    \/ (Quiet /\ AcceptBooking(1))
    \/ (Quiet /\ CancelBooking(1))
    \/ (Quiet /\ ReleaseExpiredSlotLocks(1))
    \/ (Quiet /\ Tick)
    \/ (Quiet /\ \E k \in Keys : SlotLockExpire(k))
    \/ Return(1)

SpecSlots == Init /\ [][NextSlots]_vars

AwaitingPandit(b) == b \in DOMAIN bookings /\ bookings[b].status = "AWAITING_PANDIT"

\* SpecDeclineCancel: a booking is brought to AWAITING_PANDIT; then the pandit's
\* decline (slot 1) and a cancel by the customer or an admin (slot 2), both
\* invoked while it is AWAITING_PANDIT, run interleaved.
NextDeclineCancel ==
    \/ (DOMAIN bookings = {} /\ CreateBooking(1))
    \/ PaymentConfirmed(1)
    \/ \E b \in BookingIds :
         req[1].op # "decline" /\ AwaitingPandit(b) /\ DeclineBegin(1, "pu1", b)
    \/ DeclineRelease(1)
    \/ DeclineCommit(1)
    \/ \E u \in {"u1", "adm"}, b \in BookingIds :
         req[2].pc = "idle" /\ AwaitingPandit(b) /\ CancelBegin(2, u, b)
    \/ CancelRelease(2)
    \/ CancelFindSlot(2)
    \/ CancelCommit(2)
    \/ Tick

SpecDeclineCancel == Init /\ [][NextDeclineCancel]_vars

\* SpecPayout: one booking is paid, accepted and completed (slot 1); the nightly
\* beat task queues payout tasks and two Celery workers run them.
NextPayout ==
    \/ (DOMAIN bookings = {} /\ CreateBooking(1))
    \/ InitiatePayment(1)
    \/ \E o \in OrderIds : GatewayCheckout(o)
    \/ VerifyPayment(1)
    \/ AcceptBooking(1)
    \/ CompleteBooking(1)
    \/ ProcessPendingPayouts
    \/ \E r \in DOMAIN req : ProcessSinglePayout(r)

SpecPayout == Init /\ [][NextPayout]_vars

\* SpecSweep: a booking that is paid for and then waits for the pandit.  The
\* beat schedule runs release_expired_slot_locks again and again
\* (celery_app.py: every 300 s), a handler that has begun runs to its end, and
\* every response is delivered.  The sweep is given strong fairness: it runs
\* infinitely often even though it is not enabled while another request's
\* response is pending, which is more than the weak fairness it needs.
NextSweep ==
    \/ (Quiet /\ DOMAIN bookings = {} /\ CreateBooking(1))
    \/ (Quiet /\ PaymentConfirmed(1))
    \/ (Quiet /\ AcceptBooking(1))
    \/ (Quiet /\ CancelBooking(1))
    \/ (Quiet /\ ReleaseExpiredSlotLocks(1))
    \/ (Quiet /\ Tick)
    \/ Return(1)

SpecSweep ==
    /\ Init
    /\ [][NextSweep]_vars
    /\ SF_vars(Quiet /\ ReleaseExpiredSlotLocks(1))
    /\ WF_vars(~Free(1) /\ NextSweep)
    /\ WF_vars(Return(1))

\* SpecLifecycle: one booking and the booking router alone: the payment
\* service's call-back, the pandit's accept, decline and complete from every
\* caller, and cancel, one request at a time.
NextLifecycle ==
    \/ (Quiet /\ DOMAIN bookings = {} /\ CreateBooking(1))
    \/ (Quiet /\ PaymentConfirmed(1))
    \/ (Quiet /\ AcceptBooking(1))
    \/ (Quiet /\ DeclineBooking(1))
    \/ (Quiet /\ CompleteBooking(1))
    \/ (Quiet /\ CancelBooking(1))
    \/ (Quiet /\ Tick)
    \/ (Quiet /\ \E k \in Keys : SlotLockExpire(k))
    \/ Return(1)

SpecLifecycle == Init /\ [][NextLifecycle]_vars

\* the keys of pandit p's slots
SlotKeysOf(p) == {k \in Keys : k[1] = p}

\* SpecSlotLock: the slot-lock methods of RedisCache called by two clients in
\* any order, with any key of the bookable pandit and any booking id, while
\* locks run out.
NextSlotLock ==
    \/ \E r \in DOMAIN req, k \in SlotKeysOf("p1"), b \in BookingIds : LockSlot(r, k, b)
    \/ \E r \in DOMAIN req, k \in SlotKeysOf("p1") : ReleaseSlot(r, k)
    \/ \E r \in DOMAIN req, k \in SlotKeysOf("p1") : GetSlotLock(r, k)
    \/ \E k \in Keys : SlotLockExpire(k)
    \/ \E r \in DOMAIN req : Return(r)

SpecSlotLock == Init /\ [][NextSlotLock]_vars

\* SpecPayment: one booking and its payment: the order, the checkout at the
\* gateway, the client's verify call and the gateway's webhooks, one request
\* at a time.
NextPayment ==
    \/ (Quiet /\ DOMAIN bookings = {} /\ CreateBooking(1))
    \/ (Quiet /\ InitiatePayment(1))
    \/ (Quiet /\ \E o \in OrderIds : GatewayCheckout(o))
    \/ (Quiet /\ VerifyPayment(1))
    \/ (Quiet /\ RazorpayWebhook(1))
    \/ (Quiet /\ Tick)
    \/ Return(1)

SpecPayment == Init /\ [][NextPayment]_vars

\* SpecCreateAsWritten: create_booking requests from two clients with line 183
\* evaluated as written (see the header); every other specification reads
\* that line as the fee lookup.
NextCreateAsWritten ==
    \E r \in DOMAIN req :
        \/ \E u \in Users \ {"adm"}, p \in Pandits \cup {"p0"}, j \in Poojas \cup {"j0"},
              tz \in Offsets :
             req[r].pc = "idle" /\ CreateValidate(r, u, p, j, SlotTime, tz)
        \/ CreateReadLock(r)
        \/ CreatePersistAsWritten(r)
        \/ Return(r)

SpecCreateAsWritten == Init /\ [][NextCreateAsWritten]_vars

\* SpecFrame: the saga of Spec, and the booked pandit changes the fee once
\* the booking exists.
NextFrame ==
    \/ Next
    \/ (Quiet /\ DOMAIN bookings # {} /\ \E fee \in Fees : UpdateMyProfile(1, "pu1", fee))

SpecFrame == Init /\ [][NextFrame]_vars

\* SpecCreateGuards: create_booking called again and again for the one slot,
\* by customers and by a pandit, while earlier bookings are paid and accepted
\* (which books the availability row) and slot locks run out.
NextCreateGuards ==
    \/ (Quiet /\ CreateBooking(1))
    \/ (Quiet /\ PaymentConfirmed(1))
    \/ (Quiet /\ \E b \in BookingIds : AcceptBegin(1, "pu1", b))
    \/ (Quiet /\ AcceptFindSlot(1))
    \/ (Quiet /\ AcceptRelease(1))
    \/ (Quiet /\ AcceptCommit(1))
    \/ (Quiet /\ \E k \in Keys : SlotLockExpire(k))
    \/ Return(1)

SpecCreateGuards == Init /\ [][NextCreateGuards]_vars

\* SpecRefund: a booking is paid for and then declined, cancelled or swept,
\* and an admin may refund a payment by hand.  Nothing but the beat schedule,
\* the progress of a handler that has begun and the delivery of responses is
\* fair: whether and when an admin calls refund_payment is the admin's choice.
NextRefund ==
    \/ (Quiet /\ DOMAIN bookings = {} /\ CreateBooking(1))
    \/ (Quiet /\ InitiatePayment(1))
    \/ (Quiet /\ \E o \in OrderIds : GatewayCheckout(o))
    \/ (Quiet /\ VerifyPayment(1))
    \/ (Quiet /\ DeclineBooking(1))
    \/ (Quiet /\ CancelBooking(1))
    \/ (Quiet /\ ReleaseExpiredSlotLocks(1))
    \/ (Quiet /\ RefundPayment(1))
    \/ (Quiet /\ Tick)
    \/ Return(1)

SpecRefund ==
    /\ Init
    /\ [][NextRefund]_vars
    /\ SF_vars(Quiet /\ ReleaseExpiredSlotLocks(1))
    /\ WF_vars(~Free(1) /\ NextRefund)
    /\ WF_vars(Return(1))

\* SpecInitiateRace: the customer calls initiate_payment for the one booking
\* again and again, from two connections at once, and may pay the first
\* order; the gateway hands out up to MaxReorders orders.
InitiateAgain(r) ==
    \/ \E u \in {"u1", "u2"}, b \in BookingIds : InitiateBeginWithin(r, u, b, MaxReorders)
    \/ InitiateOrder(r)
    \/ InitiateCommit(r)

NextInitiateRace ==
    \/ (DOMAIN bookings = {} /\ CreateBooking(1))
    \/ \E r \in DOMAIN req : InitiateAgain(r)
    \/ \E o \in OrderIds : GatewayCheckout(o)
    \/ VerifyPayment(1)

SpecInitiateRace == Init /\ [][NextInitiateRace]_vars

\* SpecVerify: the customer has up to MaxBookings bookings, pays for one of
\* them and calls verify_payment with a booking_id of their choosing, one
\* request at a time.
NextVerify ==
    \/ (Quiet /\ CreateBooking(1))
    \/ (Quiet /\ InitiatePayment(1))
    \/ (Quiet /\ \E o \in OrderIds : GatewayCheckout(o))
    \/ (Quiet /\ VerifyPayment(1))
    \/ Return(1)

SpecVerify == Init /\ [][NextVerify]_vars

\* SpecRefundRace: the payment of one booking is captured; process_refund
\* tasks for it run in two Celery workers, interleaved step by step, while the
\* web process (slot 1) serves the admin's refund_payment and the gateway's
\* webhooks.
NextRefundRace ==
    \/ (DOMAIN bookings = {} /\ CreateBooking(1))
    \/ InitiatePayment(1)
    \/ \E o \in OrderIds : GatewayCheckout(o)
    \/ VerifyPayment(1)
    \/ RefundPayment(1)
    \/ RazorpayWebhook(1)
    \/ \E p \in PaymentIds : EnqueueProcessRefund(p)
    \/ \E r \in DOMAIN req : ProcessRefund(r)

SpecRefundRace == Init /\ [][NextRefundRace]_vars

\* SpecCompleteRace: a booking is brought to CONFIRMED; then the pandit's
\* complete (slot 1) and a cancel by the customer or an admin (slot 2) run
\* interleaved step by step.
NextCompleteRace ==
    \/ (DOMAIN bookings = {} /\ CreateBooking(1))
    \/ PaymentConfirmed(1)
    \/ AcceptBooking(1)
    \/ CompleteBooking(1)
    \/ CancelBooking(2)

SpecCompleteRace == Init /\ [][NextCompleteRace]_vars

\* SpecTasks: one booking is taken through payment, accept and completion,
\* an admin may refund by hand, and a Celery worker runs the payout and refund
\* tasks between the requests; a gateway call of a task may raise, and the
\* task is then sent again.  One handler or task runs at a time.
NextTasks ==
    \/ (Quiet /\ DOMAIN bookings = {} /\ CreateBooking(1))
    \/ (Quiet /\ InitiatePayment(1))
    \/ (Quiet /\ \E o \in OrderIds : GatewayCheckout(o))
    \/ (Quiet /\ VerifyPayment(1))
    \/ (Quiet /\ AcceptBooking(1))
    \/ (Quiet /\ CompleteBooking(1))
    \/ (Quiet /\ RefundPayment(1))
    \/ (Quiet /\ ProcessPendingPayouts)
    \/ (Quiet /\ ProcessSinglePayout(1))
    \/ (Quiet /\ PayoutGatewayFails(1))
    \/ (Quiet /\ \E p \in PaymentIds : EnqueueProcessRefund(p))
    \/ (Quiet /\ ProcessRefund(1))
    \/ Return(1)

SpecTasks == Init /\ [][NextTasks]_vars

\* SpecSweepRace: the sweep runs in a Celery worker (slot 1) while the web
\* process serves the customer's requests for the one booking and a second
\* worker runs another instance of the sweep (slot 2), interleaved step by
\* step.
NextSweepRace ==
    \/ (DOMAIN bookings = {} /\ CreateBooking(2))
    \/ InitiatePayment(2)
    \/ \E o \in OrderIds : GatewayCheckout(o)
    \/ VerifyPayment(2)
    \/ CancelBooking(2)
    \/ \E r \in DOMAIN req : ReleaseExpiredSlotLocks(r)
    \/ Tick

SpecSweepRace == Init /\ [][NextSweepRace]_vars

\* SpecRedisDown: one booking is declined or cancelled while Redis may fail
\* to answer a release_slot call, one request at a time.
NextRedisDown ==
    \/ (Quiet /\ DOMAIN bookings = {} /\ CreateBooking(1))
    \/ (Quiet /\ PaymentConfirmed(1))
    \/ (Quiet /\ DeclineBooking(1))
    \/ (Quiet /\ DeclineReleaseFails(1))
    \/ (Quiet /\ CancelBooking(1))
    \/ (Quiet /\ CancelReleaseFails(1))
    \/ Return(1)

SpecRedisDown == Init /\ [][NextRedisDown]_vars

\* ------------------------------------------------------------ properties

C3_StatusIsLastAudit ==
    \A b \in DOMAIN bookings :
        /\ b \in DOMAIN audit
        /\ audit[b] # <<>>
        /\ bookings[b].status = audit[b][Len(audit[b])].to_status

\* C4: when the pandit's decline and a cancel, both invoked on a booking in
\* AWAITING_PANDIT, have finished, exactly one has answered 200 and the other
\* an error, the status is the winner's target, and one audit row was added.
C4_OneTransitionWins ==
    \A b \in DOMAIN bookings :
        (/\ req[1].op = "decline" /\ req[1].pc = "done" /\ req[1].b = b
         /\ req[2].op = "cancel" /\ req[2].pc = "done" /\ req[2].b = b)
        => /\ (req[1].code = 200) # (req[2].code = 200)
           /\ req[1].code >= 400 \/ req[2].code >= 400
           /\ bookings[b].status = IF req[1].code = 200 THEN "DECLINED" ELSE "CANCELLED"
           /\ Cardinality({i \in DOMAIN audit[b] :
                  audit[b][i].to_status \in {"DECLINED", "CANCELLED"}}) = 1

\* C5: a booking that is COMPLETED, CANCELLED or DECLINED keeps its status in
\* every step.
C5_TerminalAbsorbing ==
    [][\A b \in DOMAIN bookings :
          bookings[b].status \in {"COMPLETED", "CANCELLED", "DECLINED"}
          => bookings'[b].status = bookings[b].status]_vars

\* C6: every step that changes a booking's status (or creates the booking)
\* follows an edge of the transition table.
C6_TransitionTable ==
    [][\A b \in DOMAIN bookings' :
          LET from == IF b \in DOMAIN bookings THEN bookings[b].status ELSE "none"
              to == bookings'[b].status
          IN  \/ from = to
              \/ <<from, to>> \in
                   {<<"none", "SLOT_LOCKED">>,
                    <<"SLOT_LOCKED", "PAYMENT_PENDING">>,
                    <<"SLOT_LOCKED", "AWAITING_PANDIT">>,
                    <<"PAYMENT_PENDING", "AWAITING_PANDIT">>,
                    <<"AWAITING_PANDIT", "CONFIRMED">>,
                    <<"AWAITING_PANDIT", "DECLINED">>,
                    <<"CONFIRMED", "COMPLETED">>,
                    <<"SLOT_LOCKED", "CANCELLED">>,
                    <<"PAYMENT_PENDING", "CANCELLED">>,
                    <<"AWAITING_PANDIT", "CANCELLED">>,
                    <<"CONFIRMED", "CANCELLED">>}]_vars

\* C7: the step that takes up an accept, decline, complete or cancel for a
\* caller who passes the authorisation checks, on a booking whose status is no
\* valid source of the transition, answers with an error at once and leaves
\* the bookings, the audit log, the availability slots, the notifications and
\* the slot lock as they were.
C7_InvalidSourceRejected ==
    [][\A r \in DOMAIN req :
          LET op == req'[r].op
              u == req'[r].by
              b == req'[r].b
              st == bookings[b].status
              pandit_ok == RequirePandit(u) /\ OwnsBooking(u, b)
              cancel_ok == ~(Role(u) = "USER" /\ bookings[b].user_id # u)
              invalid ==
                  \/ op \in {"accept", "decline"} /\ pandit_ok /\ st # "AWAITING_PANDIT"
                  \/ op = "complete" /\ pandit_ok /\ st # "CONFIRMED"
                  \/ /\ op = "cancel" /\ cancel_ok
                     /\ st \notin {"SLOT_LOCKED", "PAYMENT_PENDING",
                                   "AWAITING_PANDIT", "CONFIRMED"}
          IN  (Free(r) /\ req'[r] # req[r] /\ b \in DOMAIN bookings /\ invalid)
              => /\ req'[r].pc = "done"
                 /\ req'[r].code >= 400
                 /\ UNCHANGED <<bookings, audit, availability, notifications, slot_lock>>
      ]_vars

\* a cancel by the customer on their COMPLETED booking has been answered 400
C7_Witness ==
    /\ req[1].op = "cancel" /\ req[1].pc = "done" /\ req[1].code = 400
    /\ req[1].by = "u1"
    /\ req[1].b \in DOMAIN bookings
    /\ bookings[req[1].b].user_id = "u1"
    /\ bookings[req[1].b].status = "COMPLETED"

C9_AcceptAfterDeadlineRejected ==
    [][\A r \in DOMAIN req :
          LET b == req'[r].b
          IN  (/\ Free(r) /\ req'[r] # req[r] /\ req'[r].op = "accept"
               /\ b \in DOMAIN bookings
               /\ bookings[b].status = "AWAITING_PANDIT"
               /\ now > bookings[b].accept_deadline)
              => /\ req'[r].pc = "done"
                 /\ req'[r].code >= 400
                 /\ bookings'[b].status = "AWAITING_PANDIT"
                 /\ bookings'[b].confirmed_at = bookings[b].confirmed_at
                 /\ UNCHANGED <<availability, slot_lock, audit>>
      ]_vars

\* the assigned pandit's accept, past the deadline, has been answered 400
C9_Witness ==
    /\ req[1].op = "accept" /\ req[1].pc = "done" /\ req[1].code = 400
    /\ req[1].by = "pu1"
    /\ req[1].b \in DOMAIN bookings
    /\ bookings[req[1].b].status = "AWAITING_PANDIT"
    /\ now > bookings[req[1].b].accept_deadline

\* C10: a booking that is AWAITING_PANDIT past its accept_deadline is
\* eventually CANCELLED.
C10_StuckAwaitingCancelled ==
    \A b \in BookingIds :
        (/\ b \in DOMAIN bookings
         /\ bookings[b].status = "AWAITING_PANDIT"
         /\ now > bookings[b].accept_deadline)
        ~> (b \in DOMAIN bookings /\ bookings[b].status = "CANCELLED")

\* C11: a payment that has been CAPTURED once (its captured_at is set) is never
\* moved from another status to CAPTURED again, and its captured_at is never
\* written again.
C11_CapturedOnce ==
    [][\A p \in DOMAIN payments :
          payments[p].captured_at # NoTime
          => /\ payments[p].status # "CAPTURED" => payments'[p].status # "CAPTURED"
             /\ payments'[p].captured_at = payments[p].captured_at]_vars

\* C12: a cancel_booking call by a user who is neither the booking's customer
\* nor an admin is answered 403 and changes nothing; only the owner or an
\* admin gets a booking changed by a cancel.
C12_CancelOnlyOwnerOrAdmin ==
    [][\A r \in DOMAIN req :
          /\ (/\ Free(r) /\ req'[r] # req[r] /\ req'[r].op = "cancel"
              /\ req'[r].b \in DOMAIN bookings
              /\ bookings[req'[r].b].user_id # req'[r].by
              /\ Role(req'[r].by) # "ADMIN")
             => req'[r].pc = "done" /\ req'[r].code = 403
          /\ (req[r].op = "cancel" /\ req[r].pc # "done" /\ req'[r].pc = "done"
              /\ <<dbvars, slot_lock>>' # <<dbvars, slot_lock>>)
             => (bookings[req[r].b].user_id = req[r].by \/ Role(req[r].by) = "ADMIN")]_vars

\* C13: accept, decline or complete called for an existing booking by a caller
\* who has no pandit profile, or whose profile is not the booking's pandit, is
\* answered 403 in whatever status the booking is, and the handler ends there:
\* the booking, its audit trail, the availability rows and the slot locks are
\* as they were.
C13_NotAssignedForbidden ==
    [][\A r \in DOMAIN req :
          (/\ Free(r) /\ req'[r] # req[r]
           /\ req'[r].op \in {"accept", "decline", "complete"}
           /\ req'[r].b \in DOMAIN bookings
           /\ \/ PanditOfUser(req'[r].by) = "none"
              \/ bookings[req'[r].b].pandit_id # PanditOfUser(req'[r].by))
          => /\ req'[r].pc = "done" /\ req'[r].code = 403
             /\ UNCHANGED <<bookings, audit, availability, slot_lock>>]_vars

\* a pandit other than the assigned one has tried each of the three on a
\* booking in the status in which the assigned pandit would have succeeded
C13_Witness ==
    /\ req[1].pc = "done" /\ req[1].code = 403 /\ req[1].by = "pu2"
    /\ req[1].b \in DOMAIN bookings
    /\ \/ req[1].op = "accept" /\ bookings[req[1].b].status = "AWAITING_PANDIT"
       \/ req[1].op = "complete" /\ bookings[req[1].b].status = "CONFIRMED"

\* C14: a lock_slot call returns true exactly when the key had no live lock,
\* and then the key is owned by the caller's booking; when the key has a live
\* lock the call returns false and the stored owner stays; no other key is
\* touched, so a key never has more than the one owner the first caller set.
C14_LockSlotFirstWins ==
    [][\A r \in DOMAIN req :
          (req[r].pc = "idle" /\ req'[r].op = "lock_slot")
          => LET k == req'[r].key
                 b == req'[r].b
             IN  /\ req'[r].ret = "true" <=> slot_lock[k] = NoBooking
                 /\ req'[r].ret = "true" => slot_lock'[k] = b
                 /\ req'[r].ret = "false" => slot_lock'[k] = slot_lock[k]
                 /\ \A x \in Keys \ {k} : slot_lock'[x] = slot_lock[x]]_vars

\* a lock_slot call for a key that another booking holds has returned false
C14_Witness ==
    \E r \in DOMAIN req :
        /\ req[r].op = "lock_slot" /\ req[r].ret = "false"
        /\ slot_lock[req[r].key] \notin {NoBooking, req[r].b}

\* C15: a release_slot call on a key without a live lock changes nothing; any
\* release_slot call leaves its key without a lock and every other key as it
\* was, so a second release of the same key is a release of an unlocked key
\* and has no further effect.
C15_ReleaseIdempotent ==
    [][\A r \in DOMAIN req :
          (req[r].pc = "idle" /\ req'[r].op = "release_slot")
          => LET k == req'[r].key
             IN  /\ slot_lock[k] = NoBooking => slot_lock' = slot_lock
                 /\ slot_lock'[k] = NoBooking
                 /\ \A x \in Keys \ {k} : slot_lock'[x] = slot_lock[x]
                 /\ release_slot(slot_lock', k) = slot_lock'
                 /\ req'[r].code = 0]_vars

\* one client has released a key that was already unlocked while the same
\* pandit's other key is held, and another client has released it before
C15_Witness ==
    /\ req[1].op = "release_slot" /\ req[2].op = "release_slot"
    /\ req[1].key = req[2].key
    /\ \E x \in Keys : x[1] = req[1].key[1] /\ x # req[1].key /\ slot_lock[x] # NoBooking

C17_PaymentFailedCompensation ==
    [][\A r \in DOMAIN req :
          (/\ req[r].op = "webhook" /\ req[r].pc = "commit"
           /\ req[r].event = "payment.failed" /\ req'[r].pc = "done")
          => LET b == req[r].b
             IN  /\ payments'[req[r].pay].status = "FAILED"
                 /\ bookings[b].status = "PAYMENT_PENDING"
                    => /\ bookings'[b].status = "CANCELLED"
                       /\ bookings'[b].cancellation_reason = "Payment failed"
                 /\ bookings[b].status # "PAYMENT_PENDING" => bookings'[b] = bookings[b]]_vars

\* the webhook has cancelled a booking whose payment failed
C17_Witness ==
    /\ req[1].op = "webhook" /\ req[1].pc = "done" /\ req[1].code = 200
    /\ req[1].b \in DOMAIN bookings
    /\ bookings[req[1].b].status = "CANCELLED"
    /\ bookings[req[1].b].cancellation_reason = "Payment failed"
    /\ \E p \in DOMAIN payments :
          payments[p].booking_id = req[1].b /\ payments[p].status = "FAILED"

\* C18: a create_booking request that gets past the guards and the lock
\* check ends with 201 and a booking in SLOT_LOCKED whose amounts come from
\* the pandit's fee f and the commission: platform_fee = f * percent / 100,
\* total_amount = f + platform_fee, pandit_payout = f - platform_fee
\* (1000 and 10 per cent give 100, 1100 and 900).
C18_AmountsAtCreation ==
    [][\A r \in DOMAIN req :
          (/\ req[r].op = "create" /\ req[r].pc \in {"persist", "lock", "commit"}
           /\ req'[r].pc = "done")
          => /\ req'[r].code = 201
             /\ req'[r].b \in DOMAIN bookings'
             /\ LET row == bookings'[req'[r].b]
                    f == base_fee[row.pandit_id]
                IN  /\ row.status = "SLOT_LOCKED"
                    /\ row.base_amount = f
                    /\ row.platform_fee * 100 = f * PLATFORM_COMMISSION_PERCENT
                    /\ row.total_amount = f + row.platform_fee
                    /\ row.pandit_payout = f - row.platform_fee
                    /\ f = 1000 => /\ row.platform_fee = 100
                                   /\ row.total_amount = 1100
                                   /\ row.pandit_payout = 900]_vars

\* C19: once a booking exists, no step changes its base_amount, platform_fee,
\* total_amount, pandit_payout, customer, pandit, pooja, scheduled_at or
\* accept_deadline, whatever the operation and whatever the pandit's fee
\* becomes afterwards.
C19_FrozenAtCreation ==
    [][\A b \in DOMAIN bookings :
          /\ b \in DOMAIN bookings'
          /\ bookings'[b].base_amount = bookings[b].base_amount
          /\ bookings'[b].platform_fee = bookings[b].platform_fee
          /\ bookings'[b].total_amount = bookings[b].total_amount
          /\ bookings'[b].pandit_payout = bookings[b].pandit_payout
          /\ bookings'[b].user_id = bookings[b].user_id
          /\ bookings'[b].pandit_id = bookings[b].pandit_id
          /\ bookings'[b].pooja_id = bookings[b].pooja_id
          /\ bookings'[b].scheduled_at = bookings[b].scheduled_at
          /\ bookings'[b].accept_deadline = bookings[b].accept_deadline]_vars

\* a booking has gone through the saga to its end and its pandit asks
\* another fee now than the one the booking was priced with
C19_Witness ==
    \E b \in DOMAIN bookings :
        /\ bookings[b].status \in {"COMPLETED", "CANCELLED", "DECLINED"}
        /\ base_fee[bookings[b].pandit_id] # bookings[b].base_amount

\* C20: a create_booking call gets past its guards only when the caller is not
\* a pandit, the pandit exists, is verified and accepts bookings, a row of
\* the pandit's availability on the date is neither booked nor blocked, and
\* the slot's key has no live lock; a call that fails a guard ends with an
\* error status and leaves the bookings, the audit trail and the slot locks
\* as they were.
C20_FailedCreateChangesNothing ==
    [][\A r \in DOMAIN req :
          /\ (req[r].pc \in {"idle", "done"} /\ req'[r].op = "create"
              /\ req'[r].pc = "read_lock")
             => /\ Role(req'[r].by) # "PANDIT"
                /\ req'[r].pandit \in {"p1", "p2", "p3"}
                /\ PanditProfile(req'[r].pandit).verification_status = "VERIFIED"
                /\ PanditProfile(req'[r].pandit).is_available
                /\ \E x \in AvailIds :
                      /\ availability[x].pandit_id = req'[r].pandit
                      /\ ~availability[x].is_booked /\ ~availability[x].is_blocked
          /\ (req[r].op = "create" /\ req[r].pc = "read_lock" /\ req'[r].pc = "persist")
             => slot_lock[SlotKey(req[r].pandit, isoformat(req[r].at, req[r].tz))] = NoBooking
          /\ (req[r].pc # "done" /\ req'[r].op = "create" /\ req'[r].pc = "done"
              /\ req'[r].code # 201)
             => /\ req'[r].code \in {400, 403, 404, 409}
                /\ UNCHANGED <<bookings, audit, slot_lock>>
          /\ (req[r].pc \in {"idle", "done"} /\ req'[r].op = "create")
             => UNCHANGED <<bookings, audit, slot_lock>>
          /\ (req[r].op = "create" /\ req[r].pc = "read_lock" /\ req'[r] # req[r])
             => UNCHANGED <<bookings, audit, slot_lock>>]_vars

\* a create_booking call for a slot whose key is locked has been refused
C20_Witness ==
    /\ req[1].op = "create" /\ req[1].pc = "done" /\ req[1].code = 409
    /\ \E k \in Keys : slot_lock[k] # NoBooking

\* C21: accept_booking called by the booking's pandit while the booking is
\* AWAITING_PANDIT and the clock is not past accept_deadline is not refused,
\* and it ends with 200, the booking CONFIRMED, confirmed_at set to the time
\* of the call, and exactly one more audit row, from AWAITING_PANDIT to
\* CONFIRMED.
C21_AcceptConfirms ==
    [][\A r \in DOMAIN req :
          /\ (/\ Free(r) /\ req'[r] # req[r] /\ req'[r].op = "accept"
              /\ req'[r].b \in DOMAIN bookings
              /\ PanditOfUser(req'[r].by) = bookings[req'[r].b].pandit_id
              /\ bookings[req'[r].b].status = "AWAITING_PANDIT"
              /\ now <= bookings[req'[r].b].accept_deadline)
             => req'[r].pc # "done"
          /\ (req[r].op = "accept" /\ req[r].pc # "done" /\ req'[r].pc = "done")
             => LET b == req[r].b
                IN  /\ req'[r].code = 200
                    /\ bookings'[b].status = "CONFIRMED"
                    /\ bookings'[b].confirmed_at = req[r].at
                    /\ req[r].at # NoTime
                    /\ Len(audit'[b]) = Len(audit[b]) + 1
                    /\ SubSeq(audit'[b], 1, Len(audit[b])) = audit[b]
                    /\ audit'[b][Len(audit'[b])].from_status = "AWAITING_PANDIT"
                    /\ audit'[b][Len(audit'[b])].to_status = "CONFIRMED"]_vars

\* the assigned pandit's accept has confirmed a booking at its deadline hour
C21_Witness ==
    /\ req[1].op = "accept" /\ req[1].pc = "done" /\ req[1].code = 200
    /\ bookings[req[1].b].status = "CONFIRMED"
    /\ bookings[req[1].b].confirmed_at = bookings[req[1].b].accept_deadline

\* C22: a booking that is AWAITING_PANDIT has a Payment row for it that has
\* been captured.
C22_AwaitingHasCapturedPayment ==
    \A b \in DOMAIN bookings :
        bookings[b].status = "AWAITING_PANDIT"
        => \E p \in DOMAIN payments :
              /\ payments[p].booking_id = b
              /\ payments[p].captured_at # NoTime

C24_RefundEventually ==
    \A b \in BookingIds :
        (/\ b \in DOMAIN bookings
         /\ bookings[b].status \in {"DECLINED", "CANCELLED"}
         /\ \E p \in DOMAIN payments :
               payments[p].booking_id = b /\ payments[p].status = "CAPTURED")
        ~> (\E p \in DOMAIN payments :
               payments[p].booking_id = b /\ payments[p].refund_id # 0)

\* C25: when the sweep commits, a booking it selected whose status another
\* request has changed since the selection is left as that request wrote it.
C25_SweepKeepsNewerStatus ==
    [][\A r \in DOMAIN req :
          (req[r].op = "sweep" /\ req[r].pc = "commit" /\ req'[r].pc = "done")
          => \A b \in DOMAIN req[r].sel :
                bookings[b].status # req[r].sel[b] => bookings'[b] = bookings[b]]_vars

\* C26: however many instances of the sweep run at once, a booking gets at
\* most one audit row written by the sweep.
C26_OneSweepAuditRow ==
    \A b \in DOMAIN audit :
        Cardinality({i \in 1..Len(audit[b]) :
                        /\ audit[b][i].changed_by = "system"
                        /\ audit[b][i].to_status = "CANCELLED"}) <= 1

C28_StatusWriteNotBlocked ==
    [][\A r \in DOMAIN req :
          (/\ req[r].op \in {"decline", "cancel"} /\ req[r].pc # "done"
           /\ req'[r].pc = "done")
          => /\ bookings'[req[r].b].status =
                   (IF req[r].op = "decline" THEN "DECLINED" ELSE "CANCELLED")
             /\ Len(audit'[req[r].b]) = Len(audit[req[r].b]) + 1]_vars

\* C29: a verify_payment call or a webhook call whose signature does not
\* check out is answered 400 at once and no Payment and no Booking is
\* changed by it, so that the same call can be made again.
C29_BadSignatureNoWrites ==
    [][\A r \in DOMAIN req :
          (/\ Free(r) /\ req'[r] # req[r]
           /\ req'[r].op \in {"verify", "webhook"}
           /\ ~req'[r].valid)
          => /\ req'[r].pc = "done" /\ req'[r].code = 400
             /\ UNCHANGED <<payments, bookings>>]_vars

\* a call with a bad signature has been refused while the booking waits for
\* its payment
C29_Witness ==
    /\ req[1].op \in {"verify", "webhook"} /\ req[1].pc = "done"
    /\ ~req[1].valid /\ req[1].code = 400
    /\ \E p \in DOMAIN payments :
          /\ payments[p].status = "PENDING"
          /\ bookings[payments[p].booking_id].status = "PAYMENT_PENDING"

\* C30: the gateway makes a payout for a payment only in a
\* process_single_payout task that has passed its checks, and a task that
\* takes up a payment which, at that moment, is missing, is not CAPTURED,
\* has a payout_id or whose booking is not COMPLETED ends at once: no payout
\* is made and no payment is changed.
C30_PayoutOnlyWhenDue ==
    [][/\ \A p \in PaymentIds :
            payouts'[p] # payouts[p]
            => \E r \in DOMAIN req :
                  /\ req[r].op = "payout" /\ req[r].pc = "gateway"
                  /\ req[r].pay = p
       /\ \A r \in DOMAIN req, p \in PaymentIds :
            (/\ Free(r) /\ req'[r] # req[r] /\ req'[r].op = "payout"
             /\ queue'[p] < queue[p]
             /\ ~(/\ p \in DOMAIN payments
                  /\ payments[p].status = "CAPTURED"
                  /\ payments[p].payout_id = 0
                  /\ bookings[payments[p].booking_id].status = "COMPLETED"))
            => /\ req'[r].pc = "done"
               /\ UNCHANGED <<payments, payouts, refunds>>]_vars

\* two payout tasks for the same payment have ended and the gateway has paid
\* once: the later task found the payout_id and returned
C30_Witness ==
    /\ \A r \in DOMAIN req : req[r].op = "payout" /\ req[r].pc = "done"
    /\ \E p \in DOMAIN payments :
          /\ payments[p].payout_id # 0
          /\ payouts[p] = 1
          /\ queue[p] = 0

\* C31: no step of process_refund, process_single_payout or
\* process_pending_payouts changes a booking (its status included), whether
\* the task ends well, skips or fails, and a task whose gateway call raises
\* leaves every payment row (status, refund_id and payout_id included) as it
\* was.
TaskOps == {"payout", "process_refund"}

C31_TasksLeaveStatusAlone ==
    [][/\ (\/ queue' # queue
           \/ \E r \in DOMAIN req :
                 /\ req'[r] # req[r]
                 /\ \/ req[r].op \in TaskOps /\ ~Free(r)
                    \/ Free(r) /\ req'[r].op \in TaskOps)
          => /\ DOMAIN bookings' = DOMAIN bookings
             /\ \A b \in DOMAIN bookings : bookings'[b].status = bookings[b].status
       /\ \A r \in DOMAIN req :
             (/\ req[r].op \in TaskOps /\ req[r].pc = "gateway"
              /\ req'[r].pc = "done" /\ req'[r].code = 500)
             => payments' = payments]_vars

\* a refund task's gateway call has failed for a captured payment: the row
\* is as before and the task is queued again
C31_Witness ==
    /\ req[1].op = "process_refund" /\ req[1].pc = "done" /\ req[1].code = 500
    /\ \E p \in DOMAIN payments :
          /\ payments[p].status = "CAPTURED" /\ payments[p].refund_id = 0
          /\ refund_queue[p] > 0
          /\ bookings[payments[p].booking_id].status = "AWAITING_PANDIT"

C33_OnePaymentPerBooking ==
    /\ [](\A b \in BookingIds : Cardinality(PaymentsOf(b)) <= 1)
    /\ [][\A r \in DOMAIN req :
            /\ (/\ req[r].op = "initiate" /\ req[r].pc = "commit"
                /\ req'[r].pc = "done" /\ req'[r].code = 200
                /\ PaymentsOf(req[r].b) # {})
               => /\ DOMAIN payments' = DOMAIN payments
                  /\ \A p \in PaymentsOf(req[r].b) :
                        payments'[p].razorpay_order_id = req[r].order
            /\ (/\ Free(r) /\ req'[r] # req[r] /\ req'[r].op = "initiate"
                /\ \E p \in PaymentsOf(req'[r].b) : payments[p].status = "CAPTURED")
               => /\ req'[r].pc = "done" /\ req'[r].code >= 400
                  /\ payments' = payments]_vars

\* two initiate_payment calls for the booking have ended well one after the
\* other: the one row points at the second order
C33_Witness ==
    /\ req[1].op = "initiate" /\ req[1].pc = "done" /\ req[1].code = 200
    /\ req[2].op = "initiate" /\ req[2].pc = "done"
    /\ Cardinality(DOMAIN orders) = 2
    /\ \E p \in DOMAIN payments : payments[p].razorpay_order_id = 2

C35_VerifyAdvancesPaidBooking ==
    [][\A r \in DOMAIN req :
          (/\ req[r].op = "verify" /\ req[r].pc = "commit"
           /\ req'[r].pc = "done" /\ req'[r].code = 200)
          => /\ payments'[req[r].pay].status = "CAPTURED"
             /\ \A b \in DOMAIN bookings :
                   (/\ bookings'[b].status = "AWAITING_PANDIT"
                    /\ (b = req[r].b \/ bookings[b].status # "AWAITING_PANDIT"))
                   => b = payments[req[r].pay].booking_id]_vars

\* C36: the gateway makes at most one refund for a payment, whatever the
\* order and interleaving of process_refund tasks, refund_payment calls and
\* webhooks.
C36_OneRefundPerPayment ==
    \A p \in PaymentIds : refunds[p] <= 1

C38_BookedSlotHasConfirmedBooking ==
    \A a \in DOMAIN availability :
        availability[a].is_booked
        => /\ availability[a].booking_id \in DOMAIN bookings
           /\ bookings[availability[a].booking_id].status \in {"CONFIRMED", "COMPLETED"}

\* C39: every CONFIRMED booking holds exactly one availability slot of its
\* pandit (the slot is marked booked and names the booking); a slot names one
\* booking, so none is held by two.
C39_ConfirmedHoldsOneSlot ==
    \A b \in DOMAIN bookings :
        bookings[b].status = "CONFIRMED"
        => Cardinality({a \in DOMAIN availability :
                          /\ availability[a].is_booked
                          /\ availability[a].booking_id = b
                          /\ availability[a].pandit_id = bookings[b].pandit_id}) = 1

\* C40: a booking's status is always one of SLOT_LOCKED, PAYMENT_PENDING,
\* AWAITING_PANDIT, CONFIRMED, COMPLETED, CANCELLED and DECLINED (never DRAFT
\* or IN_PROGRESS), and a step that makes a booking COMPLETED finds it
\* CONFIRMED.
C40_StatusesInUse ==
    /\ [](\A b \in DOMAIN bookings :
             bookings[b].status \in {"SLOT_LOCKED", "PAYMENT_PENDING", "AWAITING_PANDIT",
                                     "CONFIRMED", "COMPLETED", "CANCELLED", "DECLINED"})
    /\ [][\A b \in DOMAIN bookings :
             (bookings'[b].status = "COMPLETED" /\ bookings[b].status # "COMPLETED")
             => bookings[b].status = "CONFIRMED"]_vars

====
